---- MODULE Spec2Model ----
(***************************************************************************)
(* Model of the Bugzilla -> Jira sync actions of jbi:                      *)
(*   jbi/actions/default.py                        (DefaultExecutor)       *)
(*   jbi/actions/default_with_assignee_and_status.py                       *)
(*                                        (AssigneeAndStatusExecutor)      *)
(*                                                                         *)
(* One bug lives on the Bugzilla server, issues live on the Jira server.   *)
(* Webhook events for the bug are delivered to workers; a worker runs the  *)
(* executor's __call__ for its event.  Every remote call is one step, so   *)
(* that the calls of different workers interleave, and every remote call   *)
(* either succeeds or raises.                                              *)
(***************************************************************************)
EXTENDS Integers, Sequences, FiniteSets, TLC

\* ---------------------------------------------------------------- bounds
NumWorkers == 2
MaxEvents == 2

Workers == 1..NumWorkers

\* ------------------------------------------------------------- constants
JIRA_DESCRIPTION_CHAR_LIMIT == 32767

\* The absent issue key (Python None); issue keys are 1, 2, ...
NoKey == 0
\* Python None / empty string for string-valued attributes
None == "None"
Empty == ""
Nobody == "nobody@mozilla.org"

\* ------------------------------------------------------------------ text
\* A text is the prefix of length len of the character stream named src.
NoText == [src |-> "none", len |-> 0]

Min(a, b) == IF a <= b THEN a ELSE b

\* Python text[:n]
Slice(text, n) == [text EXCEPT !.len = Min(text.len, n)]

\* --------------------------------------------------------- configuration
\* status_map / resolution_map of the action's parameters
status_map == [s \in {"NEW", "RESOLVED", "FIXED"} |->
                 CASE s = "NEW" -> "In Progress"
                   [] s = "RESOLVED" -> "Resolved"
                   [] s = "FIXED" -> "Closed"]

resolution_map == [r \in {"FIXED", "DUPLICATE"} |->
                     CASE r = "FIXED" -> "Done"
                       [] r = "DUPLICATE" -> "Duplicate"]

\* Python dict.get(k): None when the key is missing
Get(map, k) == IF k \in DOMAIN map THEN map[k] ELSE None

\* Python truthiness of an optional string
Truthy(v) == v # None /\ v # Empty

\* ---------------------------------------------------------- jbi.models
\* BugzillaBug.extract_from_see_also: the key of the first issue-tracker
\* URL of the reference field, None when there is none.
extract_from_see_also(b) ==
  LET hits == { i \in DOMAIN b.see_also :
                  b.see_also[i].host = "jira" /\ b.see_also[i].key # NoKey }
  IN  IF hits = {} THEN NoKey
      ELSE b.see_also[CHOOSE i \in hits : \A j \in hits : i <= j].key

\* BugzillaBug.get_jira_labels: the label set derived from the whiteboard
get_jira_labels(b) == {b.whiteboard} \ {Empty}

\* BugzillaBug.map_event_as_comment: the one formatted comment of a
\* comment event.
map_event_as_comment(b, ev) == [src |-> "comment", len |-> ev.comment.len]

\* BugzillaBug.map_changes_as_comments: one formatted comment per loggable
\* change category (status/resolution, assignee), in that order.
map_changes_as_comments(b, ev, status_log_enabled, assignee_log_enabled) ==
  (IF status_log_enabled /\ ev.changed_fields \cap {"status", "resolution"} # {}
     THEN <<[src |-> "status", len |-> ev.changes_len]>> ELSE <<>>)
  \o
  (IF assignee_log_enabled /\ "assigned_to" \in ev.changed_fields
     THEN <<[src |-> "assignee", len |-> ev.changes_len]>> ELSE <<>>)

\* ------------------------------------------------------- DefaultExecutor
\* jira_url = f"{settings.jira_base_url}browse/{key}"
JiraUrl(key) == [host |-> "jira", key |-> key]

\* a see_also URL of another site
OtherUrl == [host |-> "github", key |-> NoKey]

\* faulty variant: comment events are handled as bug events
CallRouteCommentAsBug(target) ==
  IF target \in {"comment", "bug"} THEN "bug_create_or_update" ELSE "ignore"

\* __call__: dispatch on the event target
CallRoute(target) ==
  CASE target = "comment" -> "comment_create_or_noop"
    [] target = "bug" -> "bug_create_or_update"
    [] OTHER -> "ignore"

\* faulty variant: the link is not looked at
CommentRouteNoLinkCheck(key, comment) ==
  IF comment = NoText THEN "noop" ELSE "post"

\* comment_create_or_noop: what the handler does with the snapshot's link
\* and the event's comment payload
CommentRoute(key, comment) ==
  IF key = NoKey THEN "noop"
  ELSE IF comment = NoText THEN "noop"
  ELSE "post"

\* faulty variant: the test of the link is inverted
BugRouteInverted(key) == IF key # NoKey THEN "create" ELSE "update"

\* bug_create_or_update: create when the snapshot carries no link
BugRoute(key) == IF key = NoKey THEN "create" ELSE "update"

\* faulty variant: the labels are sent whatever the flag
jira_fields_always_labels(b, sync_whiteboard_labels) ==
  [summary |-> b.summary, labels |-> get_jira_labels(b)]

\* jira_fields: the payload common to create and update
jira_fields(b, sync_whiteboard_labels) ==
  IF sync_whiteboard_labels
    THEN [summary |-> b.summary, labels |-> get_jira_labels(b)]
    ELSE [summary |-> b.summary]

\* faulty variant: the cut is one character short
DescriptionOffByOne(comment_list) ==
  Slice(Head(comment_list), JIRA_DESCRIPTION_CHAR_LIMIT - 1)

\* description of the creation payload
Description(comment_list) ==
  Slice(Head(comment_list), JIRA_DESCRIPTION_CHAR_LIMIT)

\* the creation payload: jira_fields plus issuetype, description, project
CreateFields(b, sync_whiteboard_labels, comment_list) ==
  LET base == jira_fields(b, sync_whiteboard_labels)
      more == [issuetype |-> b.issue_type,
               description |-> Description(comment_list),
               project |-> "PROJ"]
  IN  [f \in DOMAIN base \cup DOMAIN more |->
         IF f \in DOMAIN more THEN more[f] ELSE base[f]]

\* jira_comments_for_update of the two executors
jira_comments_for_update(executor, b, ev) ==
  IF executor = "default"
    THEN map_changes_as_comments(b, ev, TRUE, TRUE)
    ELSE map_changes_as_comments(b, ev, FALSE, FALSE)

\* the create response as a record: the first item of a list, or the dict
NormalizeResponse(resp) ==
  IF resp.kind = "list" THEN Head(resp.items) ELSE resp.value

\* faulty variant: the presence of an error field counts, whatever its content
HasErrorsByPresence(d) ==
  \E element \in DOMAIN d : element \in {"errors", "errorMessages"}

\* any(element in ["errors", "errorMessages"] and response[element] ...)
HasErrors(d) ==
  \E element \in DOMAIN d :
    element \in {"errors", "errorMessages"} /\ d[element] # {}

\* response.get("key")
KeyOf(d) == IF "key" \in DOMAIN d THEN d["key"] ELSE NoKey

\* faulty variant: every creation is taken for a duplicate
DuplicateCreationEventAlways(in_bugzilla, in_response) == TRUE

\* faulty variant: a link found by the re-fetch is never a duplicate
DuplicateCreationEventNever(in_bugzilla, in_response) == FALSE

\* faulty variant: the comparison of the two keys is inverted
DuplicateCreationEventSameKey(in_bugzilla, in_response) ==
  in_bugzilla # NoKey /\ in_response = in_bugzilla

\* _duplicate_creation_event
DuplicateCreationEvent(in_bugzilla, in_response) ==
  in_bugzilla # NoKey /\ in_response # in_bugzilla

\* faulty variant: the issue the bug links is deleted, not the new one
DeletedKeyInBugzilla(in_bugzilla, in_response) == in_bugzilla

\* delete_issue(issue_id_or_key=jira_key_in_response)
DeletedKey(in_bugzilla, in_response) == in_response

\* --------------------------------------------- AssigneeAndStatusExecutor
\* faulty variant: the resolution is not preferred to the status
BzStatusOnly(b) == b.status

\* bz_status = bz_resolution or bug.status
BzStatus(b) == IF Truthy(b.resolution) THEN b.resolution ELSE b.status

\* users[0]["accountId"] of the single account found for the query
AccountId(query) == query

\* faulty variant: the status is looked up when the resolution is not mapped
SetStatusPcFallsBack(b) ==
  IF Truthy(Get(status_map, BzStatus(b))) \/ Truthy(Get(status_map, b.status))
    THEN "set_status" ELSE "done"

\* the status half of the status/resolution rule: next remote call
SetStatusPc(b) ==
  IF Truthy(Get(status_map, BzStatus(b))) THEN "set_status" ELSE "done"

\* the status/resolution rule: next remote call
StatusRulePc(new, changed_fields, b) ==
  IF new \/ "status" \in changed_fields \/ "resolution" \in changed_fields
    THEN IF Truthy(Get(resolution_map, b.resolution))
           THEN "set_resolution" ELSE SetStatusPc(b)
    ELSE "done"

\* faulty variant: the assignee is cleared on a new issue as well
ClearAssigneePcAlways(new, changed_fields, b) == "clear_assignee"

\* clear_assignee(): a call unless the issue is new
ClearAssigneePc(new, changed_fields, b) ==
  IF ~new THEN "clear_assignee" ELSE StatusRulePc(new, changed_fields, b)

\* faulty variant: the first of several matches is taken
AfterFindUserPcFirstMatch(n_users, new, changed_fields, b) ==
  IF n_users >= 1 THEN "set_assignee" ELSE ClearAssigneePc(new, changed_fields, b)

\* after the user lookup: set the single match, else clear
AfterFindUserPc(n_users, new, changed_fields, b) ==
  IF n_users = 1 THEN "set_assignee" ELSE ClearAssigneePc(new, changed_fields, b)

\* faulty variant: the failure of the assignee update is not caught
CaughtNothing(outcome) == FALSE

\* except IOError around the assignee update
Caught(outcome) == outcome = "IOError"

\* faulty variant: the assignee is synchronised whatever the event changed
AssigneeRulePcAlways(new, changed_fields, b) ==
  IF b.assigned_to = Nobody
    THEN ClearAssigneePc(new, changed_fields, b)
    ELSE "find_user"

\* the assignee rule: next remote call
AssigneeRulePc(new, changed_fields, b) ==
  IF new \/ "assigned_to" \in changed_fields
    THEN IF b.assigned_to = Nobody
           THEN ClearAssigneePc(new, changed_fields, b)
           ELSE "find_user"
    ELSE StatusRulePc(new, changed_fields, b)

\* update_issue of the configured executor: first remote call of the hook
UpdateIssuePc(executor, new, changed_fields, b) ==
  IF executor = "default" THEN "done"
  ELSE AssigneeRulePc(new, changed_fields, b)

VARIABLES
  config,                \* [executor, sync_whiteboard_labels]
  bz_bug,                \* the bug on the Bugzilla server
  jira_issues,           \* keys of the issues that exist on the Jira server
  jira_deleted,          \* keys of the issues that were deleted
  jira_remote_links,     \* keys of the issues carrying the link back to the bug
  jira_assignee,         \* issue key -> assignee of the issue
  delivered,             \* number of events delivered so far
  pc,                    \* worker -> position in the handler
  event,                 \* worker -> the webhook event
  bug,                   \* worker -> the bug snapshot the worker holds
  linked_issue_key,      \* worker -> issue key the hook and update path work on
  is_new,                \* worker -> is_new argument of update_issue
  fields,                \* worker -> creation payload built so far
  jira_response_create,  \* worker -> the response of create_issue
  jira_key_in_response,  \* worker -> key taken from the create response
  jira_key_in_bugzilla,  \* worker -> key found in the re-fetched bug
  comments,              \* worker -> change comments still to post
  calls,                 \* worker -> the remote calls issued, in order
  update_issue_log,      \* worker -> the invocations of update_issue
  result                 \* worker -> ActionResult of the event

vars == <<config, bz_bug, jira_issues, jira_deleted, jira_remote_links,
          jira_assignee, delivered, pc, event, bug, linked_issue_key, is_new,
          fields, jira_response_create, jira_key_in_response,
          jira_key_in_bugzilla, comments, calls, update_issue_log, result>>

server == <<bz_bug, jira_issues, jira_deleted, jira_remote_links, jira_assignee>>
\* ------------------------------------------------------------ the inputs
NoEvent == [target |-> "none", changed_fields |-> {}, comment |-> NoText,
            changes_len |-> 0]
NoBug == [see_also |-> <<>>, summary |-> "", whiteboard |-> "",
          issue_type |-> "", assigned_to |-> "", status |-> "",
          resolution |-> ""]
NoFields == [summary |-> ""]
NoResponse == [kind |-> "none"]
NoResult == [did |-> FALSE, record |-> {"pending"}]

\* ActionResult
Result(did, record) == [did |-> did, record |-> record]

\* one remote call as it is logged: the operation, the issue key it is
\* about (NoKey for the bug tracker), its argument, whether it returned and
\* the exception it raised otherwise
Call(op, key, arg, ok) ==
  [op |-> op, key |-> key, arg |-> arg, ok |-> ok,
   error |-> IF ok THEN "none" ELSE "Exception"]

\* the new issue's key
FreshKey == Cardinality(jira_issues \cup jira_deleted) + 1

\* the responses create_issue can give for a created issue k, and the
\* error payloads it can give when nothing was created
GoodDicts == [k \in Nat |-> { [key |-> k],
                  [key |-> k, errors |-> {}],
                  [key |-> k, errors |-> {}, errorMessages |-> {}] }]
ErrorDicts == { [errors |-> {"summary"}],
                [errorMessages |-> {"denied"}],
                [errors |-> {}, errorMessages |-> {"denied"}] }
Shapes(dicts) == { [kind |-> "dict", value |-> d] : d \in dicts }
                 \cup { [kind |-> "list", items |-> <<d>>] : d \in dicts }

\* ---------------------------------------------------------------- steps
Goto(w, p) == pc' = [pc EXCEPT ![w] = p]

Log(w, c) == calls' = [calls EXCEPT ![w] = Append(@, c)]

Return(w, did, record) ==
  /\ Goto(w, "done")
  /\ result' = [result EXCEPT ![w] = Result(did, record)]

\* the result bug_create_or_update / create_and_link_issue return after
\* the hook
CoreResult(new) ==
  IF new THEN Result(TRUE, {"bugzilla_response", "jira_response"})
  ELSE Result(TRUE, {"jira_responses"})

\* move on to p; when p is the end of the handler, return its result
Continue(w, new, p) ==
  /\ Goto(w, p)
  /\ result' = [result EXCEPT ![w] = IF p = "done" THEN CoreResult(new) ELSE @]

\* faulty variant: the exception is swallowed and the handler ends normally
RaiseSwallowed(w) == Goto(w, "done") /\ UNCHANGED result

\* an exception leaves the handler
Raise(w) == Goto(w, "failed") /\ UNCHANGED result

\* faulty variant: the handler returns without invoking update_issue
UpdateIssueSkipped(w, key, new) ==
  /\ UNCHANGED update_issue_log
  /\ Return(w, TRUE, CoreResult(new).record)

\* self.update_issue(bug, event, key, is_new) is invoked after the calls
\* logged so far, the one being made included; its first remote call, if it
\* has one, is next
UpdateIssue(w, key, new) ==
  /\ update_issue_log' = [update_issue_log EXCEPT ![w] =
        Append(@, [key |-> key, is_new |-> new, after |-> Len(calls[w]) + 1])]
  /\ Continue(w, new,
              UpdateIssuePc(config.executor, new, event[w].changed_fields, bug[w]))

locals == <<event, bug, linked_issue_key, is_new, fields, jira_response_create,
            jira_key_in_response, jira_key_in_bugzilla, comments>>

\* The webhook delivers event ev with the bug snapshot taken when the event
\* happened; __call__ dispatches on the target.
Receive(w, ev, snapshot) ==
  /\ pc[w] \in {"idle", "done", "failed"}
  /\ delivered < MaxEvents
  /\ delivered' = delivered + 1
  /\ event' = [event EXCEPT ![w] = ev]
  /\ bug' = [bug EXCEPT ![w] = snapshot]
  /\ Goto(w, CallRoute(ev.target))
  /\ linked_issue_key' = [linked_issue_key EXCEPT ![w] = NoKey]
  /\ is_new' = [is_new EXCEPT ![w] = FALSE]
  /\ fields' = [fields EXCEPT ![w] = NoFields]
  /\ jira_response_create' = [jira_response_create EXCEPT ![w] = NoResponse]
  /\ jira_key_in_response' = [jira_key_in_response EXCEPT ![w] = NoKey]
  /\ jira_key_in_bugzilla' = [jira_key_in_bugzilla EXCEPT ![w] = NoKey]
  /\ comments' = [comments EXCEPT ![w] = <<>>]
  /\ calls' = [calls EXCEPT ![w] = <<>>]
  /\ update_issue_log' = [update_issue_log EXCEPT ![w] = <<>>]
  /\ result' = [result EXCEPT ![w] = NoResult]
  /\ UNCHANGED <<config, server>>

\* __call__ with a target that is neither comment nor bug
IgnoreTarget(w) ==
  /\ pc[w] = "ignore"
  /\ Return(w, FALSE, {})
  /\ UNCHANGED <<config, server, delivered, locals, calls, update_issue_log>>

\* comment_create_or_noop
CommentCreateOrNoop(w, ok) ==
  /\ pc[w] = "comment_create_or_noop"
  /\ LET key == extract_from_see_also(bug[w]) IN
     /\ linked_issue_key' = [linked_issue_key EXCEPT ![w] = key]
     /\ IF CommentRoute(key, event[w].comment) = "noop"
          THEN /\ ok
               /\ Return(w, FALSE, {})
               /\ UNCHANGED calls
          ELSE /\ ok => key \in jira_issues
               /\ Log(w, Call("issue_add_comment", key,
                              map_event_as_comment(bug[w], event[w]), ok))
               /\ IF ok THEN Return(w, TRUE, {"jira_response"}) ELSE Raise(w)
  /\ UNCHANGED <<config, server, delivered, event, bug, is_new, fields,
                 jira_response_create, jira_key_in_response,
                 jira_key_in_bugzilla, comments, update_issue_log>>

\* bug_create_or_update, linked: update_issue_field with jira_fields, then
\* the change comments are built
UpdateIssueField(w, ok) ==
  /\ pc[w] = "bug_create_or_update"
  /\ LET key == extract_from_see_also(bug[w])
         todo == jira_comments_for_update(config.executor, bug[w], event[w])
     IN
     /\ BugRoute(key) = "update"
     /\ ok => key \in jira_issues
     /\ linked_issue_key' = [linked_issue_key EXCEPT ![w] = key]
     /\ is_new' = [is_new EXCEPT ![w] = FALSE]
     /\ Log(w, Call("update_issue_field", key,
                    jira_fields(bug[w], config.sync_whiteboard_labels), ok))
     /\ IF ok
          THEN /\ comments' = [comments EXCEPT ![w] = todo]
               /\ IF todo # <<>>
                    THEN /\ Goto(w, "add_comment")
                         /\ UNCHANGED <<result, update_issue_log>>
                    ELSE UpdateIssue(w, key, FALSE)
          ELSE Raise(w) /\ UNCHANGED <<comments, update_issue_log>>
  /\ UNCHANGED <<config, server, delivered, event, bug, fields,
                 jira_response_create, jira_key_in_response,
                 jira_key_in_bugzilla>>

\* bug_create_or_update, linked: the next change comment is posted; the
\* hook follows the last one
AddComment(w, ok) ==
  /\ pc[w] = "add_comment"
  /\ ok => linked_issue_key[w] \in jira_issues
  /\ Log(w, Call("issue_add_comment", linked_issue_key[w], Head(comments[w]), ok))
  /\ IF ok
       THEN /\ comments' = [comments EXCEPT ![w] = Tail(@)]
            /\ IF Tail(comments[w]) # <<>>
                 THEN /\ Goto(w, "add_comment")
                      /\ UNCHANGED <<result, update_issue_log>>
                 ELSE UpdateIssue(w, linked_issue_key[w], FALSE)
       ELSE Raise(w) /\ UNCHANGED <<comments, update_issue_log>>
  /\ UNCHANGED <<config, server, delivered, event, bug, linked_issue_key, is_new,
                 fields, jira_response_create, jira_key_in_response,
                 jira_key_in_bugzilla>>

\* create_and_link_issue: get_comments, then the creation payload is built
GetComments(w, ok, comment_list) ==
  /\ pc[w] = "bug_create_or_update"
  /\ BugRoute(extract_from_see_also(bug[w])) = "create"
  /\ Log(w, Call("get_comments", NoKey, IF ok THEN Head(comment_list) ELSE NoText, ok))
  /\ IF ok
       THEN /\ fields' = [fields EXCEPT ![w] =
                 CreateFields(bug[w], config.sync_whiteboard_labels, comment_list)]
            /\ Goto(w, "create_issue")
       ELSE Goto(w, "failed") /\ UNCHANGED fields
  /\ UNCHANGED <<config, server, delivered, event, bug, linked_issue_key, is_new,
                 jira_response_create, jira_key_in_response,
                 jira_key_in_bugzilla, comments, update_issue_log, result>>

\* create_and_link_issue: create_issue, the response is normalised and
\* checked for errors, and the key is taken from it
CreateIssue(w, ok, response) ==
  /\ pc[w] = "create_issue"
  /\ Log(w, Call("create_issue", NoKey, fields[w], ok))
  /\ IF ok
       THEN LET d == NormalizeResponse(response) IN
            /\ jira_response_create' = [jira_response_create EXCEPT ![w] = response]
            /\ IF KeyOf(d) # NoKey
                 THEN /\ jira_issues' = jira_issues \cup {KeyOf(d)}
                      /\ jira_assignee' = [k \in DOMAIN jira_assignee \cup {KeyOf(d)} |->
                           IF k = KeyOf(d) THEN None ELSE jira_assignee[k]]
                 ELSE UNCHANGED <<jira_issues, jira_assignee>>
            /\ IF HasErrors(d)
                 THEN Goto(w, "failed") /\ UNCHANGED jira_key_in_response
                 ELSE /\ jira_key_in_response' =
                           [jira_key_in_response EXCEPT ![w] = KeyOf(d)]
                      /\ Goto(w, "get_bug")
       ELSE /\ Goto(w, "failed")
            /\ UNCHANGED <<jira_response_create, jira_issues, jira_assignee,
                           jira_key_in_response>>
  /\ UNCHANGED <<config, bz_bug, jira_deleted, jira_remote_links, delivered,
                 event, bug, linked_issue_key, is_new, fields,
                 jira_key_in_bugzilla, comments, update_issue_log, result>>

\* create_and_link_issue: the bug is fetched again and its link compared
\* with the new key
GetBug(w, ok) ==
  /\ pc[w] = "get_bug"
  /\ IF ok
       THEN LET in_bugzilla == extract_from_see_also(bz_bug) IN
            /\ bug' = [bug EXCEPT ![w] = bz_bug]
            /\ jira_key_in_bugzilla' = [jira_key_in_bugzilla EXCEPT ![w] = in_bugzilla]
            /\ Log(w, Call("get_bug", in_bugzilla, NoText, ok))
            /\ IF DuplicateCreationEvent(in_bugzilla, jira_key_in_response[w])
                 THEN Goto(w, "delete_issue")
                 ELSE Goto(w, "update_bug")
       ELSE /\ Log(w, Call("get_bug", NoKey, NoText, ok))
            /\ Goto(w, "failed")
            /\ UNCHANGED <<bug, jira_key_in_bugzilla>>
  /\ UNCHANGED <<config, server, delivered, event, linked_issue_key, is_new,
                 fields, jira_response_create, jira_key_in_response, comments,
                 update_issue_log, result>>

\* create_and_link_issue, duplicate creation: the new issue is deleted
DeleteIssue(w, ok) ==
  /\ pc[w] = "delete_issue"
  /\ LET key == DeletedKey(jira_key_in_bugzilla[w], jira_key_in_response[w]) IN
     /\ ok => key \in jira_issues
     /\ Log(w, Call("delete_issue", key, NoText, ok))
     /\ IF ok
          THEN /\ jira_issues' = jira_issues \ {key}
               /\ jira_deleted' = jira_deleted \cup {key}
               /\ jira_remote_links' = jira_remote_links \ {key}
               /\ Return(w, TRUE, {"jira_response"})
          ELSE /\ Raise(w)
               /\ UNCHANGED <<jira_issues, jira_deleted, jira_remote_links>>
  /\ UNCHANGED <<config, bz_bug, jira_assignee, delivered, locals,
                 update_issue_log>>

\* create_and_link_issue: the issue's URL is added to the bug's see_also
UpdateBug(w, ok) ==
  /\ pc[w] = "update_bug"
  /\ LET jira_url == JiraUrl(jira_key_in_response[w]) IN
     /\ Log(w, Call("update_bug", jira_key_in_response[w], NoText, ok))
     /\ IF ok
          THEN /\ bz_bug' = [bz_bug EXCEPT !.see_also =
                    IF \E i \in DOMAIN @ : @[i] = jira_url THEN @
                    ELSE Append(@, jira_url)]
               /\ Goto(w, "remote_link")
          ELSE Goto(w, "failed") /\ UNCHANGED bz_bug
  /\ UNCHANGED <<config, jira_issues, jira_deleted, jira_remote_links,
                 jira_assignee, delivered, locals, update_issue_log, result>>

\* create_and_link_issue: the link back to the bug is put on the issue,
\* then update_issue runs with is_new = True
CreateRemoteLink(w, ok) ==
  /\ pc[w] = "remote_link"
  /\ LET key == jira_key_in_response[w] IN
     /\ ok => key \in jira_issues
     /\ Log(w, Call("create_or_update_issue_remote_links", key, NoText, ok))
     /\ IF ok
          THEN /\ jira_remote_links' = jira_remote_links \cup {key}
               /\ linked_issue_key' = [linked_issue_key EXCEPT ![w] = key]
               /\ is_new' = [is_new EXCEPT ![w] = TRUE]
               /\ UpdateIssue(w, key, TRUE)
          ELSE /\ Raise(w)
               /\ UNCHANGED <<jira_remote_links, linked_issue_key, is_new,
                              update_issue_log>>
  /\ UNCHANGED <<config, bz_bug, jira_issues, jira_deleted, jira_assignee,
                 delivered, event, bug, fields, jira_response_create,
                 jira_key_in_response, jira_key_in_bugzilla, comments>>

\* frame of the hook's steps: everything but the log, the position, the
\* result and the issue's assignee
hook_frame == <<config, bz_bug, jira_issues, jira_deleted, jira_remote_links,
                delivered, locals, update_issue_log>>

\* update_issue, assignee rule: user_find_by_user_string returns n_users
\* accounts
FindUser(w, ok, n_users) ==
  /\ pc[w] = "find_user"
  /\ Log(w, Call("user_find_by_user_string", NoKey,
                 [query |-> bug[w].assigned_to, found |-> IF ok THEN n_users ELSE 0], ok))
  /\ IF ok
       THEN Continue(w, is_new[w],
                     AfterFindUserPc(n_users, is_new[w], event[w].changed_fields, bug[w]))
       ELSE Raise(w)
  /\ UNCHANGED <<hook_frame, jira_assignee>>

\* update_issue, assignee rule: the single match is set as assignee; an
\* IOError falls back to clear_assignee(), any other exception propagates
SetAssignee(w, outcome) ==
  /\ pc[w] = "set_assignee"
  /\ LET key == linked_issue_key[w] IN
     /\ outcome = "ok" => key \in jira_issues
     /\ Log(w, [Call("update_issue_field", key,
                     [assignee |-> AccountId(bug[w].assigned_to)],
                     outcome = "ok") EXCEPT !.error = IF outcome = "ok"
                                                       THEN "none" ELSE outcome])
     /\ CASE outcome = "ok" ->
               /\ jira_assignee' = [jira_assignee EXCEPT ![key] =
                                      AccountId(bug[w].assigned_to)]
               /\ Continue(w, is_new[w],
                           StatusRulePc(is_new[w], event[w].changed_fields, bug[w]))
          [] Caught(outcome) ->
               /\ UNCHANGED jira_assignee
               /\ Continue(w, is_new[w],
                           ClearAssigneePc(is_new[w], event[w].changed_fields, bug[w]))
          [] OTHER ->
               /\ UNCHANGED jira_assignee
               /\ Raise(w)
  /\ UNCHANGED hook_frame

\* update_issue, clear_assignee() on an issue that is not new
ClearAssignee(w, ok) ==
  /\ pc[w] = "clear_assignee"
  /\ LET key == linked_issue_key[w] IN
     /\ ok => key \in jira_issues
     /\ Log(w, Call("update_issue_field", key, [assignee |-> None], ok))
     /\ IF ok
          THEN /\ jira_assignee' = [jira_assignee EXCEPT ![key] = None]
               /\ Continue(w, is_new[w],
                           StatusRulePc(is_new[w], event[w].changed_fields, bug[w]))
          ELSE UNCHANGED jira_assignee /\ Raise(w)
  /\ UNCHANGED hook_frame

\* update_issue, status/resolution rule: the mapped resolution is set
SetResolution(w, ok) ==
  /\ pc[w] = "set_resolution"
  /\ ok => linked_issue_key[w] \in jira_issues
  /\ Log(w, Call("update_issue_field", linked_issue_key[w],
                 [resolution |-> Get(resolution_map, bug[w].resolution)], ok))
  /\ IF ok THEN Continue(w, is_new[w], SetStatusPc(bug[w])) ELSE Raise(w)
  /\ UNCHANGED <<hook_frame, jira_assignee>>

\* update_issue, status/resolution rule: the issue moves to the mapped
\* status
SetStatus(w, ok) ==
  /\ pc[w] = "set_status"
  /\ ok => linked_issue_key[w] \in jira_issues
  /\ Log(w, Call("set_issue_status", linked_issue_key[w],
                 [status |-> Get(status_map, BzStatus(bug[w]))], ok))
  /\ IF ok THEN Continue(w, is_new[w], "done") ELSE Raise(w)
  /\ UNCHANGED <<hook_frame, jira_assignee>>

\* ------------------------------------------------------- initial states
Executors == {"default", "default_with_assignee_and_status"}

TheBug(linked, assigned_to, status, resolution, whiteboard) ==
  [see_also |-> IF linked THEN <<OtherUrl, JiraUrl(1)>> ELSE <<>>,
   summary |-> "summary", whiteboard |-> whiteboard, issue_type |-> "Bug",
   assigned_to |-> assigned_to, status |-> status, resolution |-> resolution]

\* The state after the executor is built: the bug is unlinked, or linked
\* to issue 1, which then exists, carries the back link and has an assignee.
InitWith(executor, sync, linked, the_bug) ==
  /\ config = [executor |-> executor, sync_whiteboard_labels |-> sync]
  /\ bz_bug = the_bug
  /\ jira_issues = IF linked THEN {1} ELSE {}
  /\ jira_deleted = {}
  /\ jira_remote_links = IF linked THEN {1} ELSE {}
  /\ jira_assignee = IF linked THEN (1 :> "previous") ELSE <<>>
  /\ delivered = 0
  /\ pc = [w \in Workers |-> "idle"]
  /\ event = [w \in Workers |-> NoEvent]
  /\ bug = [w \in Workers |-> NoBug]
  /\ linked_issue_key = [w \in Workers |-> NoKey]
  /\ is_new = [w \in Workers |-> FALSE]
  /\ update_issue_log = [w \in Workers |-> <<>>]
  /\ fields = [w \in Workers |-> NoFields]
  /\ jira_response_create = [w \in Workers |-> NoResponse]
  /\ jira_key_in_response = [w \in Workers |-> NoKey]
  /\ jira_key_in_bugzilla = [w \in Workers |-> NoKey]
  /\ comments = [w \in Workers |-> <<>>]
  /\ calls = [w \in Workers |-> <<>>]
  /\ result = [w \in Workers |-> NoResult]

\* ------------------------------------------------------------ the inputs
Fields == {"assigned_to", "status", "resolution"}

CommentEvents(lens) ==
  { [target |-> "comment", changed_fields |-> {}, comment |-> c, changes_len |-> 0] :
      c \in {NoText} \cup { [src |-> "body", len |-> n] : n \in lens } }

BugEvents(changes, lens) ==
  { [target |-> "bug", changed_fields |-> ch, comment |-> NoText, changes_len |-> n] :
      ch \in changes, n \in lens }

OtherEvents ==
  { [target |-> "attachment", changed_fields |-> {}, comment |-> NoText,
     changes_len |-> 0] }

CommentLists(lens) == { <<[src |-> "comment0", len |-> n]>> : n \in lens }

\* the bug as it was at some earlier time: its see_also only grows
Snapshots(stale) ==
  IF stale
    THEN { [bz_bug EXCEPT !.see_also = SubSeq(@, 1, n)] : n \in 0..Len(bz_bug.see_also) }
    ELSE { bz_bug }

\* what the call that sets the assignee can do: return, raise an IOError,
\* raise another exception
Outcomes == {"ok", "IOError", "Exception"}

\* One step of worker w's handler, the remote side answering from the
\* sets of in.
Step(w, in) ==
  \/ IgnoreTarget(w)
  \/ \E ok \in in.oks : CommentCreateOrNoop(w, ok)
  \/ \E ok \in in.oks : UpdateIssueField(w, ok)
  \/ \E ok \in in.oks : AddComment(w, ok)
  \/ \E ok \in in.oks, comment_list \in in.comment_lists :
       GetComments(w, ok, comment_list)
  \/ \E ok \in in.oks,
        response \in Shapes(in.good[FreshKey]) \cup Shapes(in.errors) :
       CreateIssue(w, ok, response)
  \/ \E ok \in in.oks : GetBug(w, ok)
  \/ \E ok \in in.oks : DeleteIssue(w, ok)
  \/ \E ok \in in.oks : UpdateBug(w, ok)
  \/ \E ok \in in.oks : CreateRemoteLink(w, ok)
  \/ \E ok \in in.oks, n_users \in in.n_users : FindUser(w, ok, n_users)
  \/ \E outcome \in in.outcomes : SetAssignee(w, outcome)
  \/ \E ok \in in.oks : ClearAssignee(w, ok)
  \/ \E ok \in in.oks : SetResolution(w, ok)
  \/ \E ok \in in.oks : SetStatus(w, ok)

\* --------------------------------------------------------------- Spec
\* Events are delivered one after the other, each with a snapshot that
\* may be older than the bug; the payloads vary: the label flag, the
\* whiteboard, the text lengths and the shapes of the create response.
TextLens == {100, JIRA_DESCRIPTION_CHAR_LIMIT, JIRA_DESCRIPTION_CHAR_LIMIT + 1}

Init ==
  \E executor \in Executors, sync \in BOOLEAN, linked \in BOOLEAN,
     whiteboard \in {"", "[label]"} :
    InitWith(executor, sync, linked,
             TheBug(linked, "dev@mozilla.org", "RESOLVED", "FIXED", whiteboard))

Next ==
  \/ \E ev \in CommentEvents(TextLens) \cup BugEvents({{}, Fields}, TextLens)
                 \cup OtherEvents,
        snapshot \in Snapshots(TRUE) :
       Receive(1, ev, snapshot)
  \/ Step(1, [comment_lists |-> CommentLists(TextLens),
              good |-> GoodDicts, errors |-> ErrorDicts, n_users |-> {0, 1},
              oks |-> BOOLEAN, outcomes |-> Outcomes])

Spec == Init /\ [][Next]_vars

\* ------------------------------------------------------------ SpecHook
\* As Spec, with the payloads fixed and the inputs of update_issue
\* varying: the bug's assignee, status and resolution, the changed fields
\* of the event and the number of accounts the user lookup returns.
\* (status, resolution) of the bug
BugStates == { <<"NEW", Empty>>, <<"UNCONFIRMED", Empty>>,
               <<"RESOLVED", "FIXED">>, <<"RESOLVED", "WONTFIX">>,
               <<"RESOLVED", "DUPLICATE">> }

OneGoodDict == [k \in Nat |-> { [key |-> k] }]
OneErrorDict == { [errorMessages |-> {"denied"}] }

InitHook ==
  \E executor \in Executors, linked \in BOOLEAN,
     assigned_to \in {Nobody, "dev@mozilla.org"}, st \in BugStates :
    InitWith(executor, TRUE, linked,
             TheBug(linked, assigned_to, st[1], st[2], "[label]"))

NextHook ==
  \/ \E ev \in CommentEvents({100}) \cup BugEvents(SUBSET Fields, {100})
                 \cup OtherEvents,
        snapshot \in Snapshots(TRUE) :
       Receive(1, ev, snapshot)
  \/ Step(1, [comment_lists |-> CommentLists({100}),
              good |-> OneGoodDict, errors |-> OneErrorDict, n_users |-> 0..2,
              oks |-> BOOLEAN, outcomes |-> Outcomes])

SpecHook == InitHook /\ [][NextHook]_vars

\* ------------------------------------------------------------ SpecRace
\* The events are delivered to concurrent workers, each with the bug as
\* it is at delivery, and the remote calls of the workers interleave; no
\* remote call fails.
\* Workers are interchangeable: the idle ones are taken in order.
RaceInputs ==
  [comment_lists |-> CommentLists({100}), good |-> OneGoodDict, errors |-> {},
   n_users |-> {0, 1}, oks |-> {TRUE}, outcomes |-> {"ok"}]

InitRace ==
  \E executor \in Executors, linked \in BOOLEAN :
    InitWith(executor, TRUE, linked,
             TheBug(linked, "dev@mozilla.org", "RESOLVED", "FIXED", "[label]"))

NextRace ==
  \/ \E w \in Workers,
        ev \in (CommentEvents({100}) \ CommentEvents({}))
                 \cup BugEvents({Fields}, {100}) \cup OtherEvents,
        snapshot \in Snapshots(FALSE) :
       /\ \A v \in Workers : v < w => pc[v] # "idle"
       /\ Receive(w, ev, snapshot)
  \/ \E w \in Workers : Step(w, RaceInputs)

SpecRace == InitRace /\ [][NextRace]_vars

\* ============================================================ properties
\* the calls of worker w's event
HasCall(w, op) == \E i \in DOMAIN calls[w] : calls[w][i].op = op
HasCallOn(w, op, key) ==
  \E i \in DOMAIN calls[w] : calls[w][i].op = op /\ calls[w][i].key = key

\* the issue keys the bug's see_also names
KeysInSeeAlso ==
  { bz_bug.see_also[i].key : i \in { j \in DOMAIN bz_bug.see_also :
                                       bz_bug.see_also[j].host = "jira" } }

\* worker w created an issue and the re-fetched bug named another one
SawOtherLink(w) ==
  /\ jira_key_in_response[w] # NoKey
  /\ \E i \in DOMAIN calls[w] :
       /\ calls[w][i].op = "get_bug"
       /\ calls[w][i].ok
       /\ calls[w][i].key # NoKey
       /\ calls[w][i].key # jira_key_in_response[w]

\* C1: when create_issue returned K2 and the re-fetched bug shows a link to
\* another key K1, the event calls delete_issue(K2), calls neither
\* update_bug nor the remote-link write, and K2 is not in the bug's see_also.
C1_DuplicateIsDeletedNotLinked ==
  \A w \in Workers :
    SawOtherLink(w) =>
      /\ pc[w] = "delete_issue" \/ HasCallOn(w, "delete_issue", jira_key_in_response[w])
      /\ ~HasCall(w, "update_bug")
      /\ ~HasCall(w, "create_or_update_issue_remote_links")
      /\ jira_key_in_response[w] \notin KeysInSeeAlso

C1_Witness ==
  \E w \in Workers :
    /\ SawOtherLink(w)
    /\ pc[w] = "done"
    /\ jira_key_in_response[w] \in jira_deleted

\* C2: once concurrent bug events for an initially unlinked bug have all
\* completed, with no call failing, the bug's see_also names at most one
\* issue and exactly one of the created issues still exists.
C2_OneIssueAfterConcurrentCreates ==
  ( /\ \A w \in Workers : pc[w] = "done" /\ HasCall(w, "create_issue")
    /\ jira_issues \cup jira_deleted = { jira_key_in_response[w] : w \in Workers } )
  => /\ Cardinality(KeysInSeeAlso) <= 1
     /\ Cardinality(jira_issues) = 1

\* worker w's event is a bug event whose snapshot carries a link, and
\* bug_create_or_update has made its first call
LinkedBugEvent(w) ==
  /\ event[w].target = "bug"
  /\ ~HasCall(w, "get_bug")
  /\ extract_from_see_also(bug[w]) # NoKey
  /\ pc[w] # "bug_create_or_update"

\* C3: a bug event whose snapshot carries a link L never calls create_issue,
\* update_bug or delete_issue; its first call is update_issue_field on L.
C3_LinkedBugIsUpdated ==
  \A w \in Workers :
    LinkedBugEvent(w) =>
      /\ ~HasCall(w, "create_issue")
      /\ ~HasCall(w, "get_comments")
      /\ ~HasCall(w, "update_bug")
      /\ ~HasCall(w, "delete_issue")
      /\ calls[w] # <<>>
      /\ calls[w][1].op = "update_issue_field"
      /\ calls[w][1].key = extract_from_see_also(bug[w])

C3_Witness ==
  \E w \in Workers :
    /\ LinkedBugEvent(w)
    /\ pc[w] = "done"
    /\ calls[w][1].op = "update_issue_field"

\* C4: when an event has failed, every issue either has both halves of the
\* cross-link (its URL in the bug's see_also and the remote link on the
\* issue) or neither.
C4_NoPartialLinkAfterFailure ==
  (\E w \in Workers : pc[w] = "failed") =>
    \A k \in jira_issues \cup jira_deleted :
      (k \in KeysInSeeAlso) <=> (k \in jira_remote_links)

\* C5: a comment event on a bug whose snapshot carries no link makes no
\* remote call and returns (False, {}).
C5_CommentOnUnlinkedBugIsNoop ==
  \A w \in Workers :
    ( /\ event[w].target = "comment"
      /\ extract_from_see_also(bug[w]) = NoKey
      /\ pc[w] # "comment_create_or_noop" )
    => /\ calls[w] = <<>>
       /\ pc[w] = "done"
       /\ result[w] = [did |-> FALSE, record |-> {}]

C5_Witness ==
  \E w \in Workers :
    /\ event[w].target = "comment"
    /\ event[w].comment # NoText
    /\ extract_from_see_also(bug[w]) = NoKey
    /\ pc[w] = "done"

\* the user lookup of worker w's event at position i of its log returned
\* no account or several, for an issue that is not new
AmbiguousLookup(w, i) ==
  /\ calls[w][i].op = "user_find_by_user_string"
  /\ calls[w][i].ok
  /\ calls[w][i].arg.found # 1
  /\ ~is_new[w]
  /\ "assigned_to" \in event[w].changed_fields
  /\ bug[w].assigned_to # Nobody

\* C6: in update_issue with is_new = False, the assignee rule active and
\* the bug's assignee not the sentinel, a lookup that returns zero or
\* several accounts is followed by update_issue_field(key, {assignee: None});
\* the event sets no account as assignee, and once the clearing call has
\* returned the issue has no assignee.
C6_AmbiguousAssigneeIsCleared ==
  \A w \in Workers : \A i \in DOMAIN calls[w] :
    AmbiguousLookup(w, i) =>
      /\ IF i = Len(calls[w]) THEN pc[w] = "clear_assignee"
         ELSE /\ calls[w][i + 1].op = "update_issue_field"
              /\ calls[w][i + 1].key = linked_issue_key[w]
              /\ calls[w][i + 1].arg = [assignee |-> None]
              /\ calls[w][i + 1].ok => jira_assignee[linked_issue_key[w]] = None
      /\ \A j \in DOMAIN calls[w] :
           "assignee" \in DOMAIN calls[w][j].arg => calls[w][j].arg.assignee = None

C6_Witness ==
  \E w \in Workers : \E i \in DOMAIN calls[w] :
    /\ AmbiguousLookup(w, i)
    /\ calls[w][i].arg.found = 2
    /\ pc[w] = "done"
    /\ jira_assignee[linked_issue_key[w]] = None

\* the bug of worker w's event has a resolution missing from the
\* resolution map and an effective status key missing from the status map
NotMapped(w) ==
  /\ bug[w].resolution \notin DOMAIN resolution_map
  /\ (IF bug[w].resolution # Empty THEN bug[w].resolution ELSE bug[w].status)
       \notin DOMAIN status_map

\* C7: for a bug whose resolution is not in the resolution map and whose
\* effective status key is not in the status map, a bug event issues no
\* resolution update and no set_issue_status, and when it completes its
\* result is did-something = True.
C7_UnmappedStatusIsNoop ==
  \A w \in Workers :
    (event[w].target = "bug" /\ NotMapped(w)) =>
      /\ \A i \in DOMAIN calls[w] :
           /\ calls[w][i].op # "set_issue_status"
           /\ "resolution" \notin DOMAIN calls[w][i].arg
      /\ pc[w] = "done" => result[w].did

C7_Witness ==
  \E w \in Workers :
    /\ event[w].target = "bug"
    /\ NotMapped(w)
    /\ bug[w].resolution = "WONTFIX"
    /\ config.executor = "default_with_assignee_and_status"
    /\ "status" \in event[w].changed_fields
    /\ HasCall(w, "user_find_by_user_string")
    /\ pc[w] = "done"
    /\ result[w].did

\* C8: with sync_whiteboard_labels = False no call carries a labels field;
\* with the flag True the payload of create_issue and the payload of the
\* update path's update_issue_field carry one.
C8_LabelsFollowTheFlag ==
  \A w \in Workers : \A i \in DOMAIN calls[w] :
    LET c == calls[w][i] IN
    /\ ~config.sync_whiteboard_labels => "labels" \notin DOMAIN c.arg
    /\ ( /\ config.sync_whiteboard_labels
         /\ c.op = "create_issue" \/ (c.op = "update_issue_field" /\ i = 1) )
       => "labels" \in DOMAIN c.arg

C8_Witness ==
  \E w \in Workers :
    /\ ~config.sync_whiteboard_labels
    /\ bug[w].whiteboard # Empty
    /\ HasCall(w, "create_issue")
    /\ pc[w] = "done"

\* C9: the description of the creation payload is the first comment's text
\* cut to JIRA_DESCRIPTION_CHAR_LIMIT when it is longer and the whole text
\* otherwise; the comments posted with issue_add_comment keep the length
\* the mapper gave them.
C9_DescriptionIsCutCommentsAreNot ==
  \A w \in Workers : \A i \in DOMAIN calls[w] :
    LET c == calls[w][i] IN
    /\ c.op = "create_issue" =>
         /\ i > 1
         /\ calls[w][i - 1].op = "get_comments"
         /\ LET text == calls[w][i - 1].arg IN
            c.arg.description =
              [src |-> text.src,
               len |-> IF text.len > 32767 THEN 32767 ELSE text.len]
    /\ c.op = "issue_add_comment" =>
         c.arg.len = IF event[w].target = "comment"
                       THEN event[w].comment.len ELSE event[w].changes_len

C9_Witness ==
  \E w \in Workers : \E i \in DOMAIN calls[w] :
    /\ i > 1
    /\ calls[w][i].op = "create_issue"
    /\ calls[w][i - 1].arg.len = 32768
    /\ calls[w][i].arg.description.len = 32767

\* the record of a create response carries an errors or errorMessages
\* field with content
TruthyErrors(resp) ==
  LET d == IF resp.kind = "list" THEN resp.items[1] ELSE resp.value IN
  \/ "errors" \in DOMAIN d /\ d["errors"] # {}
  \/ "errorMessages" \in DOMAIN d /\ d["errorMessages"] # {}

\* C10: a create response whose record has an errors or errorMessages
\* field with content ends the event as failed with create_issue its last
\* call; a response whose error fields are empty or missing lets
\* create_and_link_issue go on to the re-fetch of the bug.
C10_ErrorResponseAborts ==
  \A w \in Workers :
    jira_response_create[w].kind # "none" =>
      LET last == calls[w][Len(calls[w])] IN
      /\ TruthyErrors(jira_response_create[w]) =>
           pc[w] = "failed" /\ last.op = "create_issue"
      /\ (~TruthyErrors(jira_response_create[w]) /\ last.op = "create_issue") =>
           pc[w] = "get_bug"

C10_Witness ==
  \E w \in Workers :
    /\ jira_response_create[w].kind = "list"
    /\ TruthyErrors(jira_response_create[w])
    /\ pc[w] = "failed"

\* ------------------------------------------------ the calls of the hook
IsFindUser(c) == c.op = "user_find_by_user_string"
IsAssigneeSet(c) ==
  c.op = "update_issue_field" /\ "assignee" \in DOMAIN c.arg
                              /\ c.arg.assignee # None
IsAssigneeClear(c) ==
  c.op = "update_issue_field" /\ "assignee" \in DOMAIN c.arg
                              /\ c.arg.assignee = None
IsResolutionUpdate(c) ==
  c.op = "update_issue_field" /\ "resolution" \in DOMAIN c.arg
IsSetStatus(c) == c.op = "set_issue_status"

HookTag(c) ==
  CASE IsFindUser(c) -> "find"
    [] IsAssigneeSet(c) -> "set"
    [] IsAssigneeClear(c) -> "clear"
    [] IsResolutionUpdate(c) -> "resolution"
    [] IsSetStatus(c) -> "status"
    [] OTHER -> "core"

\* the calls the status/resolution rule owes for the event worker w handles,
\* read off the two maps
StatusRuleActive(w) ==
  is_new[w] \/ "status" \in event[w].changed_fields
            \/ "resolution" \in event[w].changed_fields
StatusKey(w) ==
  IF bug[w].resolution # Empty THEN bug[w].resolution ELSE bug[w].status
ExpectedStatusCalls(w) ==
  IF ~StatusRuleActive(w) THEN <<>>
  ELSE (IF bug[w].resolution \in DOMAIN resolution_map
          THEN <<"resolution">> ELSE <<>>)
       \o (IF StatusKey(w) \in DOMAIN status_map THEN <<"status">> ELSE <<>>)

\* C11: when the update that sets the single matching account as assignee
\* fails with an IOError, the event does not fail at that call: the calls that
\* follow it are the assignee clear (only when the issue is not new) and then
\* the calls of the status/resolution rule, all on the same issue; the event
\* can then only fail at one of these later calls, and it ends with
\* did-something = true once they have all returned.
C11_AssigneeFailureFallsBackToClear ==
  \A w \in Workers : \A i \in DOMAIN calls[w] :
    LET c == calls[w][i] IN
    (IsAssigneeSet(c) /\ c.error = "IOError") =>
      LET n == Len(calls[w])
          tail == SubSeq(calls[w], i + 1, n)
          expected == (IF is_new[w] THEN <<>> ELSE <<"clear">>)
                      \o ExpectedStatusCalls(w)
          complete == Len(tail) = Len(expected)
                      /\ (Len(tail) > 0 => tail[Len(tail)].ok)
      IN /\ i > 1 /\ IsFindUser(calls[w][i - 1]) /\ calls[w][i - 1].arg.found = 1
         /\ Len(tail) <= Len(expected)
         /\ \A j \in DOMAIN tail :
              HookTag(tail[j]) = expected[j] /\ tail[j].key = c.key
         /\ pc[w] = "failed" => (Len(tail) >= 1 /\ ~tail[Len(tail)].ok)
         /\ (pc[w] = "done") = complete
         /\ pc[w] = "done" => result[w].did

C11_Witness ==
  \E w \in Workers : \E i \in DOMAIN calls[w] :
    /\ IsAssigneeSet(calls[w][i]) /\ calls[w][i].error = "IOError"
    /\ ~is_new[w]
    /\ i + 1 \in DOMAIN calls[w] /\ IsAssigneeClear(calls[w][i + 1])
    /\ IsSetStatus(calls[w][Len(calls[w])])
    /\ pc[w] = "done" /\ result[w].did

\* the calls the code guards in no way: every call but the assignee update
FatalFailure(c) == ~c.ok /\ ~IsAssigneeSet(c)

CountOf(w, op) == Cardinality({ i \in DOMAIN calls[w] : calls[w][i].op = op })

\* C12: a failed remote call other than the assignee update, and a create
\* response with an error payload, is the last call of its event, which is
\* failed and returns nothing; an event issues create_issue, update_bug, the
\* remote-link write and delete_issue at most once each; and what the
\* event's calls had changed before the failure stays changed: the issue it
\* created exists, the link it wrote is in see_also, the remote link and the
\* assignee it set are on the issue.
C12_FailureEndsTheEvent ==
  \A w \in Workers :
    LET log == calls[w]
        n == Len(log)
        Ok(op) == \E i \in DOMAIN log : log[i].op = op /\ log[i].ok
    IN
    /\ \A i \in DOMAIN log :
         (\/ FatalFailure(log[i])
          \/ /\ log[i].op = "create_issue" /\ log[i].ok
             /\ TruthyErrors(jira_response_create[w]))
         => (i = n /\ pc[w] = "failed" /\ result[w] = NoResult)
    /\ \A op \in {"create_issue", "update_bug",
                  "create_or_update_issue_remote_links", "delete_issue"} :
         CountOf(w, op) <= 1
    /\ pc[w] = "failed" =>
         /\ (jira_key_in_response[w] # NoKey /\ ~Ok("delete_issue"))
              => jira_key_in_response[w] \in jira_issues
         /\ Ok("update_bug") => jira_key_in_response[w] \in KeysInSeeAlso
         /\ Ok("create_or_update_issue_remote_links")
              => jira_key_in_response[w] \in jira_remote_links
         /\ \A i \in DOMAIN log :
              (IsAssigneeSet(log[i]) /\ log[i].ok)
                => jira_assignee[log[i].key] = log[i].arg.assignee

C12_Witness ==
  \E w \in Workers :
    /\ pc[w] = "failed"
    /\ Len(calls[w]) >= 4
    /\ calls[w][Len(calls[w])].op = "create_or_update_issue_remote_links"
    /\ ~calls[w][Len(calls[w])].ok
    /\ jira_key_in_response[w] \in KeysInSeeAlso
    /\ jira_key_in_response[w] \in jira_issues

\* the log and the result of a comment event, and the frame of its steps
C13_CommentEventState ==
  \A w \in Workers :
    event[w].target = "comment" =>
      LET key == extract_from_see_also(bug[w]) IN
      /\ Len(calls[w]) <= 1
      /\ \A i \in DOMAIN calls[w] :
           /\ calls[w][i].op = "issue_add_comment"
           /\ calls[w][i].key = key /\ key # NoKey
           /\ calls[w][i].arg = map_event_as_comment(bug[w], event[w])
      /\ update_issue_log[w] = <<>>
      /\ (pc[w] = "done" /\ key # NoKey /\ event[w].comment # NoText)
           => /\ Len(calls[w]) = 1 /\ calls[w][1].ok
              /\ result[w] = Result(TRUE, {"jira_response"})
      /\ (pc[w] = "done" /\ key # NoKey /\ event[w].comment = NoText)
           => calls[w] = <<>> /\ result[w] = Result(FALSE, {})

C13_CommentEventFrame ==
  \A w \in Workers :
    (pc[w] = "comment_create_or_noop" /\ pc'[w] # pc[w]) => UNCHANGED server

\* C13: an event with the comment target issues no call but
\* issue_add_comment, at most once and on the key its snapshot links, and
\* never invokes update_issue; with a link and a comment payload it ends
\* with that one call made and (True, jira_response), with a link and no
\* payload with no call and (False, {}); and no step of
\* comment_create_or_noop changes the bug, the issues or their remote links.
C13_CommentEventOnlyComments ==
  []C13_CommentEventState /\ [][C13_CommentEventFrame]_vars

C13_Witness ==
  \E w \in Workers :
    /\ event[w].target = "comment" /\ event[w].comment # NoText
    /\ extract_from_see_also(bug[w]) # NoKey
    /\ pc[w] = "done" /\ Len(calls[w]) = 1
    /\ result[w].did

Ops(s) == [i \in DOMAIN s |-> s[i].op]
Args(s) == [i \in DOMAIN s |-> s[i].arg]

\* C14: update_issue is invoked at most once per event, never for an event
\* that is not a bug event and never once the duplicate was detected; a bug
\* event that ends without a failure and without the duplicate path has
\* invoked it exactly once. When it is invoked, every call made before it
\* returned and every call made after it is one of its own, on the key it
\* was given; with is_new = True the calls before it are get_comments,
\* create_issue, get_bug, update_bug and the remote-link write in this order
\* and the key is the one of the create response; with is_new = False they
\* are update_issue_field with jira_fields followed by one issue_add_comment
\* per comment of jira_comments_for_update, in its order, and the key is the
\* one the snapshot links.
C14_HookOnceAndLast ==
  \A w \in Workers :
    LET h == update_issue_log[w]
        log == calls[w]
    IN
    /\ Len(h) <= 1
    /\ event[w].target # "bug" => h = <<>>
    /\ (pc[w] = "delete_issue" \/ HasCall(w, "delete_issue")) => h = <<>>
    /\ (pc[w] = "done" /\ event[w].target = "bug" /\ ~HasCall(w, "delete_issue"))
         => Len(h) = 1
    /\ h # <<>> =>
         LET core == SubSeq(log, 1, h[1].after) IN
         /\ h[1].after <= Len(log)
         /\ \A i \in DOMAIN core : core[i].ok
         /\ \A i \in DOMAIN log :
              i > h[1].after => (HookTag(log[i]) # "core"
                                 /\ log[i].key \in {h[1].key, NoKey})
         /\ h[1].is_new = is_new[w]
         /\ IF h[1].is_new
              THEN /\ Ops(core) = <<"get_comments", "create_issue", "get_bug",
                                    "update_bug",
                                    "create_or_update_issue_remote_links">>
                   /\ h[1].key = KeyOf(NormalizeResponse(jira_response_create[w]))
                   /\ h[1].key # NoKey
              ELSE /\ core[1].op = "update_issue_field"
                   /\ core[1].arg = jira_fields(bug[w], config.sync_whiteboard_labels)
                   /\ Args(Tail(core)) =
                        jira_comments_for_update(config.executor, bug[w], event[w])
                   /\ \A i \in DOMAIN core :
                        /\ i > 1 => core[i].op = "issue_add_comment"
                        /\ core[i].key = h[1].key
                   /\ h[1].key = extract_from_see_also(bug[w])
                   /\ h[1].key # NoKey

C14_Witness ==
  \E w \in Workers :
    /\ pc[w] = "done"
    /\ Len(update_issue_log[w]) = 1
    /\ ~update_issue_log[w][1].is_new
    /\ update_issue_log[w][1].after = 3
    /\ Len(calls[w]) = 3

\* the key the re-fetched bug named when worker w saw the other link
SurvivingKey(w) == jira_key_in_bugzilla[w]

\* the log and the result of the duplicate path, and the frame of the delete
C15_DuplicatePathState ==
  \A w \in Workers :
    SawOtherLink(w) =>
      LET log == calls[w]
          own == jira_key_in_response[w]
          path == <<"get_comments", "create_issue", "get_bug", "delete_issue">>
      IN
      /\ Len(log) \in {3, 4}
      /\ Ops(log) = SubSeq(path, 1, Len(log))
      /\ \A i \in DOMAIN log :
           log[i].op # "get_bug" => log[i].key \in {NoKey, own}
      /\ SurvivingKey(w) # own
      /\ update_issue_log[w] = <<>>
      /\ pc[w] \in {"delete_issue", "done", "failed"}
      /\ (pc[w] = "delete_issue") = (Len(log) = 3)
      /\ pc[w] = "done" => /\ log[4].ok
                           /\ result[w] = Result(TRUE, {"jira_response"})
      /\ pc[w] = "failed" => ~log[4].ok

C15_DuplicatePathFrame ==
  \A w \in Workers :
    (pc[w] = "delete_issue" /\ pc'[w] # pc[w]) =>
      /\ bz_bug' = bz_bug
      /\ jira_assignee' = jira_assignee
      /\ jira_issues \ {jira_key_in_response[w]} = jira_issues' \ {jira_key_in_response[w]}
      /\ jira_remote_links \ {jira_key_in_response[w]}
           = jira_remote_links' \ {jira_key_in_response[w]}

\* C15: once the re-fetched bug named another key K1, the event's calls are
\* get_comments, create_issue, get_bug and then at most delete_issue on its
\* own key; none of them addresses K1, update_issue is not invoked, the
\* event ends with (True, jira_response) when the delete returned and fails
\* only when the delete failed; and the delete step leaves the bug, the
\* assignees and every other issue and remote link as they were.
C15_DuplicatePathOnlyDeletes ==
  []C15_DuplicatePathState /\ [][C15_DuplicatePathFrame]_vars

C15_Witness ==
  \E w \in Workers :
    /\ SawOtherLink(w)
    /\ pc[w] = "done"
    /\ result[w] = Result(TRUE, {"jira_response"})
    /\ SurvivingKey(w) \in jira_issues
    /\ SurvivingKey(w) \in KeysInSeeAlso
    /\ Len(calls[w]) = 4

\* C16: a user lookup or an update of the assignee is issued only when
\* is_new or assigned_to is among the changed fields; an update of the
\* resolution or set_issue_status only when is_new or status or resolution
\* is among them; and update_issue invoked for an update event that changes
\* none of the three fields issues no call: the event is done with the last
\* call of bug_create_or_update.
C16_RulesFollowTheChangedFields ==
  \A w \in Workers :
    LET log == calls[w]
        h == update_issue_log[w]
        changed == event[w].changed_fields
        assignee_rule == is_new[w] \/ "assigned_to" \in changed
        status_rule == is_new[w] \/ "status" \in changed \/ "resolution" \in changed
    IN
    /\ \A i \in DOMAIN log :
         /\ HookTag(log[i]) \in {"find", "set", "clear"} => assignee_rule
         /\ HookTag(log[i]) \in {"resolution", "status"} => status_rule
    /\ pc[w] \in {"find_user", "set_assignee", "clear_assignee"} => assignee_rule
    /\ pc[w] \in {"set_resolution", "set_status"} => status_rule
    /\ (h # <<>> /\ ~assignee_rule /\ ~status_rule)
         => (Len(log) = h[1].after /\ pc[w] = "done")

C16_Witness ==
  \E w \in Workers :
    /\ config.executor = "default_with_assignee_and_status"
    /\ update_issue_log[w] # <<>>
    /\ ~is_new[w]
    /\ event[w].changed_fields = {}
    /\ bug[w].assigned_to # Nobody
    /\ bug[w].resolution \in DOMAIN resolution_map
    /\ pc[w] = "done"
    /\ Len(calls[w]) = update_issue_log[w][1].after

\* C17: every set_issue_status call is made for a key StatusKey -- the
\* bug's resolution when it has one, else its status -- that is in the
\* status map, with the value mapped to that key, and every resolution
\* update with the value mapped to the bug's resolution; each is made at
\* most once, the resolution update first; and an event whose
\* status/resolution rule was active and that is done has called
\* set_issue_status exactly when StatusKey is in the status map.
C17_StatusKeyPrefersResolution ==
  \A w \in Workers :
    LET log == calls[w]
        h == update_issue_log[w]
        rule == /\ h # <<>>
                /\ config.executor = "default_with_assignee_and_status"
                /\ StatusRuleActive(w)
    IN
    /\ \A i \in DOMAIN log :
         /\ IsSetStatus(log[i]) =>
              /\ rule
              /\ StatusKey(w) \in DOMAIN status_map
              /\ log[i].arg = [status |-> status_map[StatusKey(w)]]
              /\ log[i].key = h[1].key
         /\ IsResolutionUpdate(log[i]) =>
              /\ rule
              /\ bug[w].resolution \in DOMAIN resolution_map
              /\ log[i].arg = [resolution |-> resolution_map[bug[w].resolution]]
              /\ log[i].key = h[1].key
         /\ \A j \in DOMAIN log :
              (IsResolutionUpdate(log[i]) /\ IsSetStatus(log[j])) => i < j
    /\ CountOf(w, "set_issue_status") <= 1
    /\ Cardinality({ i \in DOMAIN log : IsResolutionUpdate(log[i]) }) <= 1
    /\ pc[w] = "set_status" => StatusKey(w) \in DOMAIN status_map
    /\ (rule /\ pc[w] = "done") =>
         /\ HasCall(w, "set_issue_status") = (StatusKey(w) \in DOMAIN status_map)
         /\ (\E i \in DOMAIN log : IsResolutionUpdate(log[i]))
              = (bug[w].resolution \in DOMAIN resolution_map)

C17_Witness ==
  \E w \in Workers :
    /\ pc[w] = "done"
    /\ ~is_new[w]
    /\ bug[w].status = "RESOLVED" /\ bug[w].resolution = "FIXED"
    /\ Len(calls[w]) >= 3
    /\ IsResolutionUpdate(calls[w][Len(calls[w]) - 1])
    /\ IsSetStatus(calls[w][Len(calls[w])])
    /\ calls[w][Len(calls[w])].arg = [status |-> "Closed"]

\* C18: an event whose update_issue runs with is_new = True never issues
\* update_issue_field with assignee None and is never about to, whatever
\* the assignee rule met: the unassigned sentinel, a lookup that found no or
\* several accounts, or a failed assignee update; and for a bug assigned to
\* the sentinel no user lookup is made.
C18_NewIssueIsNeverCleared ==
  \A w \in Workers :
    /\ is_new[w] =>
         /\ \A i \in DOMAIN calls[w] : ~IsAssigneeClear(calls[w][i])
         /\ pc[w] # "clear_assignee"
    /\ (update_issue_log[w] # <<>> /\ bug[w].assigned_to = Nobody) =>
         /\ \A i \in DOMAIN calls[w] : ~IsFindUser(calls[w][i])
         /\ pc[w] \notin {"find_user", "set_assignee"}

\* the three branches that would clear the assignee of an issue that is
\* not new
ClearBranch(w, branch) ==
  LET log == calls[w]
      n == Len(log)
      after == update_issue_log[w][1].after
  IN CASE branch = "sentinel" -> bug[w].assigned_to = Nobody /\ n = after
       [] branch = "lookup" -> /\ n = after + 1 /\ IsFindUser(log[n])
                               /\ log[n].ok /\ log[n].arg.found # 1
       [] branch = "failure" -> /\ n = after + 2 /\ IsAssigneeSet(log[n])
                                /\ log[n].error = "IOError"

C18_Witness ==
  \E w \in Workers :
    /\ is_new[w]
    /\ config.executor = "default_with_assignee_and_status"
    /\ update_issue_log[w] # <<>>
    /\ ClearBranch(w, "failure")
    /\ pc[w] = "done"

\* the deleted keys and the delete calls, and how the deleted keys change
C19_DeletedState ==
  /\ jira_deleted \cap KeysInSeeAlso = {}
  /\ jira_deleted \cap jira_issues = {}
  /\ \A w \in Workers : \A i \in DOMAIN calls[w] :
       calls[w][i].op = "delete_issue" =>
         /\ calls[w][i].key = KeyOf(NormalizeResponse(jira_response_create[w]))
         /\ calls[w][i].key # NoKey
         /\ \E j \in 1..(i - 1) :
              calls[w][j].op = "create_issue" /\ calls[w][j].ok
         /\ ~HasCall(w, "update_bug")
         /\ calls[w][i].key \notin KeysInSeeAlso
         /\ \A v \in Workers \ {w} :
              jira_key_in_response[v] # calls[w][i].key

C19_DeletedStep == jira_deleted \subseteq jira_deleted'

\* C19: no deleted issue is named by the bug's see_also, now or later
\* (deleted keys stay deleted and are not issued again); every delete_issue
\* call takes the key of the create response of the same event, made after
\* that event's create_issue returned, and that event makes no update_bug
\* call.
C19_DeletedIssueIsNeverLinked ==
  []C19_DeletedState /\ [][C19_DeletedStep]_vars

C19_Witness ==
  \E w \in Workers :
    /\ HasCallOn(w, "delete_issue", jira_key_in_response[w])
    /\ jira_deleted = {jira_key_in_response[w]}
    /\ KeysInSeeAlso # {}
    /\ KeysInSeeAlso \subseteq jira_issues
    /\ \A v \in Workers : pc[v] = "done"

\* ---------------------------------------------------------- SpecCreate
\* Concurrent bug events for a bug that starts unlinked, handled by the
\* default executor; no remote call fails, and every started event runs to
\* completion: __call__ is synchronous, so a worker that has a step to take
\* takes it.
StepCreate(w) ==
  \/ UpdateIssueField(w, TRUE)
  \/ \E comment_list \in CommentLists({100}) : GetComments(w, TRUE, comment_list)
  \/ \E response \in Shapes(OneGoodDict[FreshKey]) : CreateIssue(w, TRUE, response)
  \/ GetBug(w, TRUE)
  \/ DeleteIssue(w, TRUE)
  \/ UpdateBug(w, TRUE)
  \/ CreateRemoteLink(w, TRUE)

InitCreate ==
  InitWith("default", TRUE, FALSE,
           TheBug(FALSE, "dev@mozilla.org", "RESOLVED", "FIXED", "[label]"))

NextCreate ==
  \/ \E w \in Workers, ev \in BugEvents({{}}, {100}),
        snapshot \in Snapshots(FALSE) :
       /\ \A v \in Workers : v < w => pc[v] # "idle"
       /\ Receive(w, ev, snapshot)
  \/ \E w \in Workers : StepCreate(w)

SpecCreate ==
  InitCreate /\ [][NextCreate]_vars /\ \A w \in Workers : WF_vars(StepCreate(w))

\* no worker is in the middle of an event
AllComplete == \A w \in Workers : pc[w] \in {"idle", "done"}

\* every issue that exists is named by the bug's see_also
NoOrphan == jira_issues \subseteq KeysInSeeAlso

\* C20: with no call failing and every started event running to
\* completion, from some point on every issue ever created is deleted or
\* named by the bug's see_also; whenever no event is in progress there is no
\* issue that is neither, and if an issue was ever created the bug then
\* carries at least one link.
C20_NoOrphanIssue ==
  /\ <>[]NoOrphan
  /\ [](AllComplete => NoOrphan)
  /\ []((AllComplete /\ jira_issues \cup jira_deleted # {}) => KeysInSeeAlso # {})

C20_Witness ==
  /\ \A w \in Workers : pc[w] = "done" /\ HasCall(w, "create_issue")
  /\ NoOrphan
  /\ jira_deleted # {}
  /\ KeysInSeeAlso # {}

====
